---- MODULE Spec2Model ----
(***************************************************************************)
(* Production-rule reasoning core of the e-commerce support chatbot:       *)
(* KnowledgeBase (rule base + working-memory fact store) and               *)
(* InferenceEngine (match, conflict resolution, infer, explain), and the    *)
(* CustomerSupportAgent that drives them turn by turn (perceive, reason,   *)
(* act, run, reset).                                                       *)
(*                                                                         *)
(* Python values are modelled with their type: a value is a record         *)
(* [t, s, n] where t is "bool", "str" or "num".  A dict of facts is a      *)
(* function from the keys it holds to values.  A rule is a record holding  *)
(* the fields its JSON object has (a field the JSON lacks is not in the    *)
(* record's domain); a condition dict is the sequence of its <<key,        *)
(* expected>> items in iteration order.  None and "a rule" are the         *)
(* sequences <<>> and <<rule>>.  A call that ends in an exception has the  *)
(* outcome Raised.                                                         *)
(***************************************************************************)
EXTENDS Integers, Sequences, FiniteSets, TLC

VARIABLES pc, source, rules, facts, hist, op, arg, ret,
          conversation_history, current_context, held

vars == <<pc, source, rules, facts, hist, op, arg, ret,
          conversation_history, current_context, held>>

(* ------------------------------ bounds --------------------------------- *)
\* longest rule list a rule source holds
MaxRules == 2
\* most infer calls between two moments at which the store is empty
MaxCalls == 2
\* most agent turns between two resets
MaxTurns == 2

(* --------------------------- Python values ----------------------------- *)
B(b) == [t |-> "bool", s |-> "", n |-> IF b THEN 1 ELSE 0]
S(x) == [t |-> "str", s |-> x, n |-> 0]
N(k) == [t |-> "num", s |-> "", n |-> k]

\* isinstance(value, bool)
IsBool(v) == v.t = "bool"

\* bool(v): False, 0 and "" are falsy
Truthy(v) == IF v.t = "str" THEN v.s # "" ELSE v.n # 0

\* a == b in Python: bool is a subclass of int (True == 1, False == 0); a
\* str equals only an equal str
PyEq(a, b) ==
  IF a.t = "str" \/ b.t = "str"
  THEN a.t = b.t /\ a.s = b.s
  ELSE a.n = b.n

EmptyDict == [k \in {} |-> B(FALSE)]

(* ------------------------- outcomes of a call -------------------------- *)
Returned(v) == [raised |-> FALSE, val |-> v]
Raised == [raised |-> TRUE, val |-> <<>>]
None == <<>>

(* ------------------------ rule sources (input) ------------------------- *)
Fields == {"id", "condition", "action", "priority"}

RulePool ==
  { [id |-> "R1", condition |-> << <<"intent", S("order_status")>>,
                                   <<"has_order_id", B(TRUE)>> >>,
     action |-> "get_order_status", priority |-> 10],
    [id |-> "R2", condition |-> << <<"intent", S("order_status")>> >>,
     action |-> "request_order_id", priority |-> 5],
    \* a rule whose action tag names no routine of the agent
    [id |-> "R3", condition |-> << <<"has_order_id", B(FALSE)>> >>,
     action |-> "escalate_to_human", priority |-> 5],
    [id |-> "R4", condition |-> << <<"has_order_id", N(1)>> >>,
     action |-> "get_order_status", priority |-> 10],
    \* a rule whose JSON object has no "priority"
    [id |-> "R5", condition |-> << <<"intent", S("order_status")>> >>,
     action |-> "request_order_id"] }

SeqsUpTo(X, n) == UNION {[1..k -> X] : k \in 0..n}

\* rules.json: absent (or without JSON content), or a JSON object whose
\* "rules" entry is a list of rule objects
NoFile == [exists |-> FALSE, rules |-> <<>>]
Sources == {NoFile} \cup {[exists |-> TRUE, rules |-> rs] : rs \in SeqsUpTo(RulePool, MaxRules)}

(* ------------------------ facts mappings (input) ----------------------- *)
FactsInputs ==
  { EmptyDict,
    ("intent" :> S("order_status")) @@ ("has_order_id" :> B(TRUE)),
    ("intent" :> S("order_status")) @@ ("has_order_id" :> B(FALSE)),
    ("intent" :> S("order_status")),
    ("has_order_id" :> S("ORD12345")),
    ("intent" :> S("greeting")) @@ ("has_order_id" :> N(1)) }

(* ============================ KnowledgeBase ============================ *)

\* KnowledgeBase.load_json: the parsed JSON object, or {} when the file is
\* absent or is not JSON
load_json(src) == IF src.exists THEN [rules |-> src.rules] ELSE EmptyDict

\* KnowledgeBase.get_rules
get_rules(kb) == kb.rules

\* update_facts as a replacement of the store (self.facts = new_facts)
update_facts_replace(store, new_facts) == new_facts

\* KnowledgeBase.update_facts: dict.update
update_facts(store, new_facts) ==
  [k \in DOMAIN store \cup DOMAIN new_facts |->
     IF k \in DOMAIN new_facts THEN new_facts[k] ELSE store[k]]

\* KnowledgeBase.get_facts: a reference to the dict self.facts, not a copy
get_facts(kb) == kb.facts

\* The mapping a caller was handed by get_facts, if any: what it showed when
\* it was returned (at_call), whether it still is the dict object the store
\* uses (alias), and what it shows now.
NotHeld == <<>>
HeldRef(store) == <<[at_call |-> store, alias |-> TRUE, now |-> store]>>

\* update_facts changes the store's dict in place (self.facts.update): a
\* reference to that dict shows the change
held_after_update(h, store) ==
  IF h # NotHeld /\ h[1].alias THEN <<[h[1] EXCEPT !.now = store]>> ELSE h

\* clear_facts binds self.facts to a new dict (self.facts = {}): a reference
\* handed out before keeps the old dict
held_after_clear(h) ==
  IF h # NotHeld THEN <<[h[1] EXCEPT !.alias = FALSE]>> ELSE h

\* clear_facts that leaves the dict as it is
clear_facts_keep(store) == store

\* KnowledgeBase.clear_facts
clear_facts(store) == EmptyDict

(* =========================== InferenceEngine =========================== *)

\* evaluate_condition with "return True" inside the loop: only the first
\* entry is looked at
evaluate_condition_first_entry(condition, fs) ==
  IF condition = <<>> THEN TRUE
  ELSE LET key == Head(condition)[1]
           value == Head(condition)[2]
       IN IF key \notin DOMAIN fs THEN FALSE
          ELSE IF IsBool(value)
          THEN Truthy(value) = Truthy(fs[key])
          ELSE PyEq(fs[key], value)

\* evaluate_condition without the "key not in facts" test, reading the fact
\* with facts.get(key): an absent key reads as None, which is falsy and
\* equals no expected value
RECURSIVE evaluate_condition_get(_, _)
evaluate_condition_get(condition, fs) ==
  IF condition = <<>> THEN TRUE
  ELSE LET key == Head(condition)[1]
           value == Head(condition)[2]
           present == key \in DOMAIN fs
       IN IF IsBool(value)
          THEN IF Truthy(value) /\ ~(present /\ Truthy(fs[key])) THEN FALSE
               ELSE IF ~Truthy(value) /\ (present /\ Truthy(fs[key])) THEN FALSE
               ELSE evaluate_condition_get(Tail(condition), fs)
          ELSE IF ~(present /\ PyEq(fs[key], value)) THEN FALSE
          ELSE evaluate_condition_get(Tail(condition), fs)

\* InferenceEngine.evaluate_condition: the loop over condition.items()
RECURSIVE evaluate_condition(_, _)
evaluate_condition(condition, fs) ==
  IF condition = <<>> THEN TRUE
  ELSE LET key == Head(condition)[1]
           value == Head(condition)[2]
       IN IF key \notin DOMAIN fs THEN FALSE
          ELSE IF IsBool(value)
          THEN IF Truthy(value) /\ ~Truthy(fs[key]) THEN FALSE
               ELSE IF ~Truthy(value) /\ Truthy(fs[key]) THEN FALSE
               ELSE evaluate_condition(Tail(condition), fs)
          ELSE IF ~PyEq(fs[key], value) THEN FALSE
          ELSE evaluate_condition(Tail(condition), fs)

\* InferenceEngine.match_rules: the loop over kb.get_rules(); rule['condition']
\* raises KeyError on a rule without that field
RECURSIVE match_loop(_, _, _)
match_loop(rs, fs, matched_rules) ==
  IF rs = <<>> THEN Returned(matched_rules)
  ELSE LET rule == Head(rs)
       IN IF "condition" \notin DOMAIN rule THEN Raised
          ELSE IF evaluate_condition(rule.condition, fs)
          THEN match_loop(Tail(rs), fs, Append(matched_rules, rule))
          ELSE match_loop(Tail(rs), fs, matched_rules)

match_rules(kb, fs) == match_loop(get_rules(kb), fs, <<>>)

\* max with ">=": among equal keys the last item wins
RECURSIVE py_max_last(_, _)
py_max_last(items, best) ==
  IF items = <<>> THEN best
  ELSE IF Head(items).priority >= best.priority
  THEN py_max_last(Tail(items), Head(items))
  ELSE py_max_last(Tail(items), best)

\* max(iterable, key=...): the first item is the candidate; a later item
\* replaces it only when its key is strictly greater
RECURSIVE py_max(_, _)
py_max(items, best) ==
  IF items = <<>> THEN best
  ELSE IF Head(items).priority > best.priority
  THEN py_max(Tail(items), Head(items))
  ELSE py_max(Tail(items), best)

\* resolve_conflict returning the first matched rule (matched_rules[0])
resolve_conflict_first(matched_rules) ==
  IF matched_rules = <<>> THEN Returned(None)
  ELSE IF \E i \in DOMAIN matched_rules : "priority" \notin DOMAIN matched_rules[i]
  THEN Raised
  ELSE Returned(<<Head(matched_rules)>>)

\* resolve_conflict without the "if not matched_rules" test: max() of an
\* empty list raises ValueError
resolve_conflict_no_guard(matched_rules) ==
  IF matched_rules = <<>> THEN Raised
  ELSE IF \E i \in DOMAIN matched_rules : "priority" \notin DOMAIN matched_rules[i]
  THEN Raised
  ELSE Returned(<<py_max(Tail(matched_rules), Head(matched_rules))>>)

\* InferenceEngine.resolve_conflict; r['priority'] raises KeyError on a rule
\* without that field
resolve_conflict(matched_rules) ==
  IF matched_rules = <<>> THEN Returned(None)
  ELSE IF \E i \in DOMAIN matched_rules : "priority" \notin DOMAIN matched_rules[i]
  THEN Raised
  ELSE Returned(<<py_max(Tail(matched_rules), Head(matched_rules))>>)

\* InferenceEngine.infer: the store after the call and the call's outcome.
\* The store is merged first; the match phase is handed the incoming facts.
infer(kb, fs) ==
  LET store == update_facts(kb.facts, fs)
      matched == match_rules([kb EXCEPT !.facts = store], fs)
      selected == IF matched.raised THEN Raised ELSE resolve_conflict(matched.val)
  IN [facts |-> store, out |-> selected]

\* InferenceEngine.explain_inference; r['id'] raises KeyError on a rule
\* without that field
explain_inference(kb, fs) ==
  LET matched == match_rules(kb, fs)
      selected == IF matched.raised THEN Raised ELSE resolve_conflict(matched.val)
  IN IF matched.raised \/ selected.raised THEN Raised
     ELSE IF \E i \in DOMAIN matched.val : "id" \notin DOMAIN matched.val[i] THEN Raised
     ELSE Returned(<<[facts |-> fs,
                     matched_rules |-> [i \in DOMAIN matched.val |-> matched.val[i].id],
                     selected_rule |-> IF selected.val # None
                                       THEN <<selected.val[1].id>> ELSE None,
                     reason |-> IF selected.val # None
                                THEN "Highest priority" ELSE "No matching rules"]>>)

(* ============================= NLPProcessor ============================ *)

\* What a user can type.  A text is given with what the processor's keyword
\* and regex searches find in it: the text after preprocess_text, the intent
\* of the highest keyword score, and the first ORDnnnnn, Pnnn, price and
\* category found (<<>> when the search finds nothing).
UserInputs ==
  { [raw |-> "Where is ORD12345?", processed |-> "Where is ORD12345",
     intent |-> "order_status", order_id |-> <<"ORD12345">>,
     product_id |-> <<>>, price |-> <<>>, category |-> <<>>],
    [raw |-> "Where is my order?", processed |-> "Where is my order",
     intent |-> "order_status", order_id |-> <<>>,
     product_id |-> <<>>, price |-> <<>>, category |-> <<>>],
    [raw |-> "Hello, P001!", processed |-> "Hello P001",
     intent |-> "greeting", order_id |-> <<>>,
     product_id |-> <<"P001">>, price |-> <<>>, category |-> <<>>] }

Typed(raw) == CHOOSE u \in UserInputs : u.raw = raw
Text(processed) == CHOOSE u \in UserInputs : u.processed = processed

\* NLPProcessor.preprocess_text
preprocess_text(raw) == Typed(raw).processed

\* NLPProcessor.classify_intent
classify_intent(text) == Text(text).intent

\* NLPProcessor.extract_order_id: the match of ORD\d{5}, or None
extract_order_id(text) == Text(text).order_id

\* NLPProcessor.extract_product_id: the match of P\d{3}, or None
extract_product_id(text) == Text(text).product_id

\* NLPProcessor.extract_price
extract_price(text) == Text(text).price

\* NLPProcessor.extract_category
extract_category(text) == Text(text).category

\* extract_entities with each flag set to True whether or not an id was found
extract_entities_flag_set(text) ==
  LET order_id == extract_order_id(text)
      product_id == extract_product_id(text)
      e1 == IF order_id # None
            THEN ("order_id" :> S(order_id[1])) @@ ("has_order_id" :> B(TRUE))
            ELSE ("has_order_id" :> B(TRUE))
      e2 == IF product_id # None
            THEN ("product_id" :> S(product_id[1])) @@ ("has_product_id" :> B(TRUE))
            ELSE ("has_product_id" :> B(TRUE))
  IN e1 @@ e2

\* NLPProcessor.extract_entities: a flag for each id, the id itself only
\* when one was found
extract_entities(text) ==
  LET order_id == extract_order_id(text)
      product_id == extract_product_id(text)
      price == extract_price(text)
      category == extract_category(text)
      e1 == IF order_id # None
            THEN ("order_id" :> S(order_id[1])) @@ ("has_order_id" :> B(TRUE))
            ELSE ("has_order_id" :> B(FALSE))
      e2 == IF product_id # None
            THEN ("product_id" :> S(product_id[1])) @@ ("has_product_id" :> B(TRUE))
            ELSE ("has_product_id" :> B(FALSE))
      e3 == IF price # None /\ price[1] # 0
            THEN ("max_price" :> N(price[1])) ELSE EmptyDict
      e4 == IF category # None
            THEN ("category" :> S(category[1])) ELSE EmptyDict
  IN e1 @@ e2 @@ e3 @@ e4

(* ========================= CustomerSupportAgent ======================== *)

\* CustomerSupportAgent.perceive
perceive(user_input) ==
  LET processed_text == preprocess_text(user_input)
      intent == classify_intent(processed_text)
      entities == extract_entities(processed_text)
  IN entities @@ ("intent" :> S(intent)) @@ ("raw_input" :> S(user_input))
       @@ ("processed_input" :> S(processed_text))

\* CustomerSupportAgent.reason
reason(kb, perception) == infer(kb, perception)

\* the keys of the action_methods table of CustomerSupportAgent.act
action_methods ==
  { "get_order_status", "request_order_id", "get_return_policy",
    "check_product_returnability", "recommend_products", "get_product_info",
    "get_shipping_policy", "provide_general_help", "greet_user",
    "get_warranty_info", "get_payment_info", "handle_cancellation" }

\* CustomerSupportAgent._handle_unknown(self): the fallback text
handle_unknown == "I'm not sure I understood that correctly."

\* CustomerSupportAgent.act.  The routines of the table take (self,
\* perception) and answer from the data records; the answer is named after
\* its routine.  _handle_unknown takes (self) only: act calls it without an
\* argument for "not rule", and as action_method(perception) for a tag that
\* is not in the table, which is a TypeError.
act(rule, perception) ==
  IF rule = None THEN Returned(<<handle_unknown>>)
  ELSE IF "action" \notin DOMAIN rule[1] THEN Raised
  ELSE IF rule[1].action \in action_methods THEN Returned(<<rule[1].action>>)
  ELSE Raised

\* CustomerSupportAgent.run: the agent after the turn and the turn's outcome
run(kb, history, context, user_input) ==
  LET perception == perceive(user_input)
      r == reason(kb, perception)
      rule == r.out
      response == IF rule.raised THEN Raised ELSE act(rule.val, perception)
      entry == [user |-> user_input,
                bot |-> response.val[1],
                intent |-> perception["intent"],
                rule_id |-> IF rule.val # None THEN <<rule.val[1].id>> ELSE None]
      done == /\ ~rule.raised /\ ~response.raised
              /\ (rule.val # None => "id" \in DOMAIN rule.val[1])
  IN [facts |-> r.facts,
      perception |-> perception,
      conversation_history |-> IF done THEN Append(history, entry) ELSE history,
      current_context |-> IF done THEN perception ELSE context,
      out |-> IF done THEN response ELSE Raised]

(* ============================ state machine ============================ *)

KB == [rules |-> rules, facts |-> facts]

Init ==
  /\ pc = "start"
  /\ source \in Sources
  /\ rules = <<>>
  /\ facts = EmptyDict
  /\ hist = <<>>
  /\ op = "none"
  /\ arg = EmptyDict
  /\ ret = Returned(None)
  /\ conversation_history = <<>>
  /\ current_context = EmptyDict
  /\ held = NotHeld

\* KnowledgeBase.__init__: self.rules = self.load_json('rules.json')['rules'],
\* self.facts = {}.  {}['rules'] raises KeyError and no object is built.
KnowledgeBase_init ==
  /\ pc = "start"
  /\ IF "rules" \in DOMAIN load_json(source)
     THEN /\ pc' = "ready"
          /\ rules' = load_json(source).rules
          /\ ret' = Returned(None)
     ELSE /\ pc' = "failed"
          /\ rules' = rules
          /\ ret' = Raised
  /\ facts' = EmptyDict
  /\ op' = "load"
  /\ UNCHANGED <<source, hist, arg, conversation_history, current_context, held>>

\* infer that takes the rule it selected out of the rule base
Infer_fire_once(fs) ==
  /\ pc = "ready"
  /\ Len(hist) < MaxCalls
  /\ LET r == infer(KB, fs)
         Other(rule) == r.out.val = None \/ rule # r.out.val[1]
     IN /\ facts' = r.facts
        /\ ret' = r.out
        /\ rules' = SelectSeq(rules, Other)
  /\ hist' = Append(hist, fs)
  /\ held' = held_after_update(held, facts')
  /\ op' = "infer"
  /\ arg' = fs
  /\ UNCHANGED <<pc, source, conversation_history, current_context>>

Infer(fs) ==
  /\ pc = "ready"
  /\ Len(hist) < MaxCalls
  /\ LET r == infer(KB, fs)
     IN /\ facts' = r.facts
        /\ ret' = r.out
  /\ hist' = Append(hist, fs)
  /\ held' = held_after_update(held, facts')
  /\ op' = "infer"
  /\ arg' = fs
  /\ UNCHANGED <<pc, source, rules, conversation_history, current_context>>

Explain(fs) ==
  /\ pc = "ready"
  /\ ret' = explain_inference(KB, fs)
  /\ op' = "explain"
  /\ arg' = fs
  /\ UNCHANGED <<pc, source, rules, facts, hist,
                 conversation_history, current_context, held>>

ClearFacts ==
  /\ pc = "ready"
  /\ facts' = clear_facts(facts)
  /\ hist' = <<>>
  /\ held' = held_after_clear(held)
  /\ op' = "clear"
  /\ ret' = Returned(None)
  /\ UNCHANGED <<pc, source, rules, arg, conversation_history, current_context>>

\* KnowledgeBase.get_facts, called by a client that keeps what it is handed
GetFacts ==
  /\ pc = "ready"
  /\ held' = HeldRef(get_facts(KB))
  /\ op' = "get_facts"
  /\ ret' = Returned(<<get_facts(KB)>>)
  /\ UNCHANGED <<pc, source, rules, facts, hist, arg,
                 conversation_history, current_context>>

\* CustomerSupportAgent.run
Run(user_input) ==
  /\ pc = "ready"
  /\ Len(hist) < MaxCalls
  /\ Len(conversation_history) < MaxTurns
  /\ LET r == run(KB, conversation_history, current_context, user_input)
     IN /\ facts' = r.facts
        /\ hist' = Append(hist, r.perception)
        /\ arg' = r.perception
        /\ conversation_history' = r.conversation_history
        /\ current_context' = r.current_context
        /\ ret' = r.out
  /\ held' = held_after_update(held, facts')
  /\ op' = "run"
  /\ UNCHANGED <<pc, source, rules>>

\* CustomerSupportAgent.reset
Reset ==
  /\ pc = "ready"
  /\ conversation_history' = <<>>
  /\ current_context' = EmptyDict
  /\ facts' = clear_facts(facts)
  /\ hist' = <<>>
  /\ held' = held_after_clear(held)
  /\ op' = "reset"
  /\ ret' = Returned(None)
  /\ UNCHANGED <<pc, source, rules, arg>>

Next ==
  \/ KnowledgeBase_init
  \/ \E fs \in FactsInputs : Infer(fs)
  \/ \E fs \in FactsInputs : Explain(fs)
  \/ ClearFacts

Spec == Init /\ [][Next]_vars

\* the agent's session: turns and resets, and the engine and the store
\* called with what the agent perceives
NextAgent ==
  \/ KnowledgeBase_init
  \/ \E u \in UserInputs : Run(u.raw)
  \/ Reset
  \/ \E u \in UserInputs : Infer(perceive(u.raw))
  \/ \E u \in UserInputs : Explain(perceive(u.raw))
  \/ ClearFacts

SpecAgent == Init /\ [][NextAgent]_vars

\* the store and a client that keeps the mapping get_facts hands it
NextStore ==
  \/ KnowledgeBase_init
  \/ \E fs \in FactsInputs : Infer(fs)
  \/ ClearFacts
  \/ GetFacts

SpecStore == Init /\ [][NextStore]_vars

(* ============================== properties ============================= *)

Keys == {"intent", "has_order_id"}
ExpectedValues == {B(TRUE), B(FALSE), S("order_status"), N(1)}

\* the call whose outcome the state holds was handed facts (infer or explain)
Called == pc = "ready" /\ op \in {"infer", "explain"}

\* every rule of the rule base holds the four fields of a rule
CompleteRules == \A i \in DOMAIN rules : DOMAIN rules[i] = Fields

\* one condition entry, evaluated alone
EntrySatisfied(entry, fs) == evaluate_condition(<<entry>>, fs)

\* every condition entry of the rule is satisfied
Satisfies(rule, fs) ==
  \A j \in DOMAIN rule.condition : EntrySatisfied(rule.condition[j], fs)

\* indices of the rules of the rule base all of whose entries fs satisfies
MatchSet(fs) == {i \in DOMAIN rules : Satisfies(rules[i], fs)}

Min(X) == CHOOSE x \in X : \A y \in X : x <= y

\* C1: the rule infer returns is the one resolve selects among the rules whose
\* conditions the store satisfies as it stands after merging the call's facts
\* (stated for rule bases of complete rules).
C1_MatchOnMergedStore ==
  (pc = "ready" /\ op = "infer" /\ CompleteRules)
    => LET matched == match_rules(KB, facts)
       IN ret = IF matched.raised THEN Raised ELSE resolve_conflict(matched.val)

\* C2: the store maps every key that appeared in a call since it was last
\* empty to the value of the latest call holding that key, and holds no other key.
C2_MergeSemantics ==
  /\ DOMAIN facts = UNION {DOMAIN hist[i] : i \in DOMAIN hist}
  /\ \A k \in DOMAIN facts :
       LET calls == {i \in DOMAIN hist : k \in DOMAIN hist[i]}
           latest == CHOOSE i \in calls : \A j \in calls : j <= i
       IN facts[k] = hist[latest][k]

\* two calls: the second overwrites a key of the first and leaves another alone
C2_Witness ==
  /\ op = "infer" /\ Len(hist) = 2
  /\ \E k \in DOMAIN hist[1] \cap DOMAIN hist[2] : hist[1][k] # hist[2][k]
  /\ \E k \in DOMAIN hist[1] \ DOMAIN hist[2] : facts[k] = hist[1][k]

\* C3: match returns, in rule-base order, exactly the rules every entry of
\* which is satisfied; taking the support of one entry away unmatches the rule.
C3_ConjunctiveMatch ==
  Called =>
    LET matched == match_rules(KB, arg)
        Sat(rule) == Satisfies(rule, arg)
    IN /\ ~matched.raised
       /\ matched.val = SelectSeq(rules, Sat)
       /\ \A i \in MatchSet(arg) : \A j \in DOMAIN rules[i].condition :
            \A v \in ExpectedValues :
              LET key == rules[i].condition[j][1]
                  changed == [arg EXCEPT ![key] = v]
                  again == match_rules(KB, changed)
              IN ~EntrySatisfied(rules[i].condition[j], changed)
                   => \A m \in DOMAIN again.val : again.val[m] # rules[i]

\* a rule of two entries was left out because only its first entry is
\* satisfied, while the other rule of the rule base matched
C3_Witness ==
  /\ Called /\ Len(rules) = 2
  /\ \E i \in DOMAIN rules \ MatchSet(arg) :
       /\ Len(rules[i].condition) = 2
       /\ EntrySatisfied(rules[i].condition[1], arg)
       /\ ~EntrySatisfied(rules[i].condition[2], arg)
  /\ \E i \in MatchSet(arg) : match_rules(KB, arg).val = <<rules[i]>>

\* C4: a rule with a condition key absent from facts does not match, whatever
\* the type of the expected value.
C4_FailClosed ==
  Called =>
    LET matched == match_rules(KB, arg)
    IN /\ \A i \in DOMAIN rules :
            (\E j \in DOMAIN rules[i].condition :
                rules[i].condition[j][1] \notin DOMAIN arg)
              => \A m \in DOMAIN matched.val : matched.val[m] # rules[i]
       /\ \A key \in Keys \ DOMAIN arg : \A expected \in ExpectedValues :
            ~EntrySatisfied(<<key, expected>>, arg)

\* a rule expecting false of a key the facts lack was not selected
C4_Witness ==
  /\ pc = "ready" /\ op = "infer"
  /\ \E i \in DOMAIN rules : \E j \in DOMAIN rules[i].condition :
       /\ rules[i].condition[j][1] \notin DOMAIN arg
       /\ rules[i].condition[j][2] = B(FALSE)
  /\ Len(rules) = 1
  /\ ret = Returned(None)

\* C5: a boolean entry whose key is present is satisfied iff the truthiness
\* of the fact equals it; any other entry iff the fact is exactly that value.
C5_EntrySemantics ==
  Called =>
    \A i \in DOMAIN rules : \A j \in DOMAIN rules[i].condition :
      LET key == rules[i].condition[j][1]
          expected == rules[i].condition[j][2]
      IN key \in DOMAIN arg =>
           (EntrySatisfied(rules[i].condition[j], arg)
              <=> IF IsBool(expected)
                  THEN Truthy(arg[key]) = Truthy(expected)
                  ELSE arg[key] = expected)

\* C6: of a non-empty list of matched rules resolve returns a member whose
\* priority no other member exceeds, wherever that member sits in the list.
C6_PrioritySelection ==
  (Called /\ CompleteRules) =>
    LET matched == match_rules(KB, arg).val
        Best(list, out) ==
          /\ ~out.raised /\ out.val # None
          /\ \E i \in DOMAIN list : list[i] = out.val[1]
          /\ \A i \in DOMAIN list : list[i].priority <= out.val[1].priority
    IN /\ matched # <<>> => Best(matched, resolve_conflict(matched))
       /\ rules # <<>> => Best(rules, resolve_conflict(rules))
       /\ (op = "infer" /\ matched # <<>>) => Best(matched, ret)

\* infer returned the priority-10 rule although the priority-5 rule that also
\* matched comes first in the list
C6_Witness ==
  /\ pc = "ready" /\ op = "infer" /\ CompleteRules
  /\ MatchSet(arg) = {1, 2}
  /\ rules[1].priority = 5 /\ rules[2].priority = 10
  /\ ret = Returned(<<rules[2]>>)

\* C7: among matched rules sharing the maximum priority, resolve and infer
\* return the one that comes first in the rule base; match keeps rule-base order.
C7_TieBreakFirst ==
  (Called /\ CompleteRules /\ MatchSet(arg) # {}) =>
    LET top == {i \in MatchSet(arg) :
                  \A j \in MatchSet(arg) : rules[j].priority <= rules[i].priority}
        first == rules[Min(top)]
        matched == match_rules(KB, arg).val
    IN /\ resolve_conflict(matched) = Returned(<<first>>)
       /\ op = "infer" => ret = Returned(<<first>>)
       /\ op = "explain" => ret.val[1].selected_rule = <<first.id>>
       /\ \A m, n \in DOMAIN matched :
            m < n => \E i, j \in DOMAIN rules :
                       i < j /\ rules[i] = matched[m] /\ rules[j] = matched[n]

\* two different rules of equal priority matched and infer returned the first
C7_Witness ==
  /\ pc = "ready" /\ op = "infer" /\ CompleteRules
  /\ MatchSet(arg) = {1, 2}
  /\ rules[1].priority = rules[2].priority
  /\ rules[1].id # rules[2].id
  /\ ret = Returned(<<rules[1]>>)

\* C8 as amended: with no rule matching, infer returns None and explain reports
\* no matched rule, no selected rule and the reason "No matching rules"; with a
\* rule matching, explain's reason is "Highest priority".
C8_NoMatchOutcome ==
  (Called /\ CompleteRules) =>
    /\ (op = "infer" /\ MatchSet(arg) = {}) => ret = Returned(None)
    /\ op = "explain" =>
         /\ ~ret.raised
         /\ ret.val[1].facts = arg
         /\ MatchSet(arg) = {} =>
              /\ ret.val[1].matched_rules = <<>>
              /\ ret.val[1].selected_rule = None
              /\ ret.val[1].reason = "No matching rules"
         /\ MatchSet(arg) # {} => ret.val[1].reason = "Highest priority"

\* explain was called with facts that match none of the rules of a non-empty
\* rule base
C8_Witness ==
  /\ pc = "ready" /\ op = "explain" /\ CompleteRules
  /\ rules # <<>> /\ MatchSet(arg) = {}
  /\ ret.val[1].reason = "No matching rules"

\* C8 as stated: the reasons are "no matching rules" and "highest priority".
C8_ReasonAsStated ==
  (pc = "ready" /\ op = "explain" /\ CompleteRules) =>
    /\ ~ret.raised
    /\ MatchSet(arg) = {} =>
         /\ ret.val[1].matched_rules = <<>>
         /\ ret.val[1].selected_rule = None
         /\ ret.val[1].reason = "no matching rules"
    /\ MatchSet(arg) # {} => ret.val[1].reason = "highest priority"

\* two rules of the list hold the same id
DuplicateIds(rs) ==
  \E i, j \in DOMAIN rs :
    i # j /\ "id" \in DOMAIN rs[i] /\ "id" \in DOMAIN rs[j] /\ rs[i].id = rs[j].id

\* a rule of the list lacks a required field
Malformed(rs) == \E i \in DOMAIN rs : DOMAIN rs[i] # Fields

\* C9: loading a source with a rule that lacks a required field, or with two
\* rules of one id, fails and produces no rule base; every rule base the engine
\* runs against has complete rules and unique ids.
C9_LoadValidation ==
  /\ (pc # "start" /\ (Malformed(source.rules) \/ DuplicateIds(source.rules)))
       => (pc = "failed" /\ rules = <<>>)
  /\ pc = "ready" => (~Malformed(rules) /\ ~DuplicateIds(rules))

\* C11: once loaded, the rule base stays what was loaded through every infer,
\* explain, turn, clear and reset; an infer call changes the store and
\* nothing else of the program (no history entry, no context, no response).
C11_RuleBaseReadOnly ==
  [][ /\ pc = "ready" => (rules = source.rules /\ rules' = rules)
      /\ (pc = "ready" /\ op' = "infer") =>
           /\ UNCHANGED <<rules, conversation_history, current_context>>
           /\ facts' = update_facts(facts, arg')
           /\ \/ ret'.raised
              \/ ret'.val = None
              \/ \E i \in DOMAIN rules : ret'.val = <<rules[i]>> ]_vars

\* after a turn, infer selected a rule of a two-rule rule base, which is
\* still the one that was loaded
C11_Witness ==
  /\ pc = "ready" /\ op = "infer"
  /\ Len(conversation_history) >= 1
  /\ Len(rules) = 2 /\ rules = source.rules
  /\ ~ret.raised /\ ret.val # None

\* C12: the mapping get_facts returned still shows what the store held when
\* it was returned, whatever was done to the store since.
C12_Snapshot ==
  held # NotHeld => held[1].now = held[1].at_call

\* C13: clear and reset leave the store empty, reset leaves the agent as it
\* was when created, and no other operation takes a key out of the store.
C13_ClearEmptiesStore ==
  [][ /\ (pc = "ready" /\ op' \in {"clear", "reset"}) => facts' = EmptyDict
      /\ (pc = "ready" /\ op' = "reset") =>
           <<rules', facts', conversation_history', current_context'>>
             = <<source.rules, EmptyDict, <<>>, EmptyDict>>
      /\ (\E k \in DOMAIN facts : k \notin DOMAIN facts')
           => op' \in {"clear", "reset"} ]_vars

\* reset was called after a turn had filled the store: arg is what that turn
\* perceived
C13_Witness ==
  /\ pc = "ready" /\ op = "reset"
  /\ "raw_input" \in DOMAIN arg
  /\ facts = EmptyDict /\ conversation_history = <<>>

\* C14: infer returns a rule of the rule base or None and never raises.
C14_InferNeverRaises ==
  (pc = "ready" /\ op = "infer") =>
    /\ ~ret.raised
    /\ ret.val = None \/ \E i \in DOMAIN rules : ret.val = <<rules[i]>>

\* C15: explain leaves the store as the infer calls left it, and the matched
\* and selected rule ids it reports are what match and resolve give on the
\* store's content (stated for rule bases of complete rules).
C15_ExplainFromStore ==
  (pc = "ready" /\ op = "explain" /\ CompleteRules) =>
    LET matched == match_rules(KB, facts).val
        selected == resolve_conflict(matched).val
    IN /\ C2_MergeSemantics
       /\ ~ret.raised
       /\ ret.val[1].matched_rules = [i \in DOMAIN matched |-> matched[i].id]
       /\ ret.val[1].selected_rule =
            IF selected = None THEN None ELSE <<selected[1].id>>

\* C16: a turn ends with a response and its history entry; with no rule
\* selected, or a rule whose tag is not in the table, the response is the
\* fallback text (stated for rule bases of complete rules).
C16_DispatcherTotal ==
  (pc = "ready" /\ op = "run" /\ CompleteRules) =>
    LET selected == resolve_conflict(match_rules(KB, arg).val).val
    IN /\ ~ret.raised
       /\ conversation_history # <<>>
       /\ conversation_history[Len(conversation_history)].bot = ret.val[1]
       /\ (selected = None \/ selected[1].action \notin action_methods)
            => ret.val[1] = handle_unknown

\* a flag of the store is true
Flag(key) == key \in DOMAIN facts /\ facts[key] = B(TRUE)

\* C17: in the store, has_order_id is true iff order_id is held, and
\* has_product_id is true iff product_id is held.
C17_FlagIffKey ==
  pc = "ready" =>
    /\ Flag("has_order_id") <=> "order_id" \in DOMAIN facts
    /\ Flag("has_product_id") <=> "product_id" \in DOMAIN facts

\* C17 as amended: a true flag in the store comes with its key (a key may
\* stay behind a flag that a later turn set to false); in what one turn
\* perceives the flag is true iff the key is there.
C17_FlagImpliesKey ==
  pc = "ready" =>
    /\ Flag("has_order_id") => "order_id" \in DOMAIN facts
    /\ Flag("has_product_id") => "product_id" \in DOMAIN facts
    /\ op = "run" =>
         /\ arg["has_order_id"] = B("order_id" \in DOMAIN arg)
         /\ arg["has_product_id"] = B("product_id" \in DOMAIN arg)
         /\ \A k \in DOMAIN arg : facts[k] = arg[k]

\* after two turns the store holds the first turn's order_id under a
\* has_order_id that the second turn set to false
C17_Witness ==
  /\ pc = "ready" /\ op = "run" /\ Len(hist) = 2
  /\ "order_id" \in DOMAIN facts /\ "order_id" \notin DOMAIN arg
  /\ facts["has_order_id"] = B(FALSE)

====
